---- MODULE Spec2Model ----
(***************************************************************************)
(* A model of the build pipeline of gulpfile.babel.js: the registered      *)
(* tasks and their dependencies, the task runner that starts a task once   *)
(* its dependencies are done, the callback sequencing of the default and   *)
(* serve targets, the html task's buffer-then-replay page collection, and  *)
(* the watchers of the serve target.                                       *)
(***************************************************************************)
EXTENDS Integers, Sequences, FiniteSets, TLC

(***************************************************************************)
(* The registered tasks (gulp.task calls) and the command line targets.    *)
(***************************************************************************)
Tasks ==
  {"clean", "styles", "webpack", "html", "res", "copy", "service-worker",
   "default", "serve", "__serve__", "serve:dist"}

Commands == {"default", "serve", "serve:dist"}

\* The dependency arrays with the one of the default task left out.
TaskDepsNoClean ==
  [t \in Tasks |->
     CASE t = "__serve__" -> {"styles", "html", "webpack"}
       [] t = "serve:dist" -> {"default"}
       [] OTHER -> {}]

\* The dependency arrays with the one of the __serve__ task left out.
TaskDepsServeBare ==
  [t \in Tasks |->
     CASE t = "default" -> {"clean"}
       [] t = "serve:dist" -> {"default"}
       [] OTHER -> {}]

\* The dependency arrays given to gulp.task.
TaskDeps ==
  [t \in Tasks |->
     CASE t = "default" -> {"clean"}
       [] t = "__serve__" -> {"styles", "html", "webpack"}
       [] t = "serve:dist" -> {"default"}
       [] OTHER -> {}]

\* The sets of the default task with styles put among the content steps.
DefaultSetsEager ==
  << {"styles", "webpack", "html", "res", "copy"}, {"service-worker"} >>

\* The sets of the default task without the service-worker stage.
DefaultSetsNoWorker ==
  << {"styles"}, {"webpack", "html", "res", "copy"} >>

\* The arguments of runSequence in the default task: one set per stage.
DefaultSets ==
  << {"styles"}, {"webpack", "html", "res", "copy"}, {"service-worker"} >>

\* The arguments of runSequence in the serve task.
ServeSets == << {"__serve__"} >>

\* Tasks whose function calls runSequence and completes through its callback.
SequenceSets(t) == IF t = "default" THEN DefaultSets ELSE ServeSets

(***************************************************************************)
(* How the external work of a task may end.                                *)
(*   none:      no error                                                   *)
(*   swallowed: an error that errorHandler logs (the stream is ended by    *)
(*              hand) or that the webpack callback ignores                 *)
(*   reported:  an error the task runner sees: an exception thrown by the  *)
(*              task function, an error of the returned stream, a rejected *)
(*              promise                                                    *)
(*   fatal:     an exception outside the task function's call: an error    *)
(*              event nobody listens to on an inner stream of the pipe, or *)
(*              stats.toString on the undefined stats of a webpack error   *)
(***************************************************************************)
Errors == {"none", "swallowed", "reported", "fatal"}

ActionErrors(t) ==
  CASE t = "clean" -> {"none", "reported"}
    [] t = "styles" -> {"none", "swallowed", "reported", "fatal"}
    [] t = "webpack" -> {"none", "swallowed", "reported", "fatal"}
    [] t = "html" -> {"none", "swallowed", "reported", "fatal"}
    [] t = "res" -> {"none", "reported", "fatal"}
    [] t = "copy" -> {"none", "reported"}
    [] t = "service-worker" -> {"none", "reported"}
    [] OTHER -> {"none"}

VARIABLES
  cmd,            \* the target given on the command line
  started,        \* whether the command line has started the target
  state,          \* the task runner's view of each task
  actionError,    \* how the external work of each task's last run ended
  seq,            \* the task runner's queue (orchestrator.seq)
  isRunning,      \* the task runner's isRunning flag
  doneCallback,   \* the task runner's doneCallback: "none" or "reload"
  rsActive,       \* runSequence's listeners are attached
  rsOwner,        \* the task whose callback runSequence was given
  taskSets,       \* runSequence's remaining sets
  currentTaskSet, \* runSequence's current set
  failed,         \* an 'err' event was emitted (the run's result)
  failedStep,     \* the task of the first task_err event
  crashed,        \* the process has died of an uncaught exception
  DEV_MODE,       \* the global development-mode flag
  BASE_HREF,      \* the global base path, computed when the file is loaded
  stylesMode,     \* styles: "minified" (csso in the pipe) or "plain"
  webpackMode,    \* webpack: the mode put in the configuration
  htmlBaseHref,   \* html: the replacement given for %%BASE_HREF%%
  signals,        \* completion signals of each task since its last start
  webpackInstance,\* the global webpack compiler is set
  lastReload,     \* the last call of browserSync's reload
  htmlInput,      \* html: the files gulp.src selects in this invocation
  htmlPc,         \* html: "idle", "collect" (before the buffer), "render"
  htmlRemaining,  \* html: the files gulp.src has not read yet
  htmlBuf,        \* html: the files held by $.util.buffer()
  htmlRead,       \* html: the files gulp.src has read, in the order read
  pages,          \* html: the pages array of this invocation
  htmlQueue,      \* html: the files re-emitted and not yet rendered
  rendered,       \* html: the context given to the template renderer per file
  htmlBuilt,      \* html: the files written to dist by this invocation
  htmlError,      \* html: the plugins whose errors errorHandler handled
  serving,        \* the tree browserSync serves: "none", "dev" or "dist"
  watching,       \* the three gulp.watch watchers are registered
  webpackWatching,\* webpackInstance.watch was called
  events,         \* change events the watchers have not handled yet
  changes,        \* the number of file changes so far
  lastChange,     \* the last changed path and the tasks started for it
  graph,          \* resolver: the registered steps and their dependencies
  targets,        \* resolver: the requested target names
  buildGraph,     \* resolver: the result of resolve
  stepState,      \* runner: the completion state of each registered step
  runnerPc,       \* runner: "idle", "resolved", "started" or "aborted"
  run,            \* re-run: the number of the process run of the target
  inputs,         \* re-run: how each step's action ends on the unchanged inputs
  dist,           \* re-run: per output in dist, the run that wrote it (0: none)
  firstResult     \* re-run: the result of the first run and what it left

htmlVars ==
  << htmlInput, htmlPc, htmlRemaining, htmlBuf, htmlRead, pages, htmlQueue,
     rendered, htmlBuilt, htmlError >>

watchVars ==
  << serving, watching, webpackWatching, events, changes, lastChange >>

vars ==
  << cmd, started, state, actionError, seq, isRunning, doneCallback, rsActive,
     rsOwner, taskSets, currentTaskSet, failed, failedStep, crashed, DEV_MODE,
     BASE_HREF, stylesMode, webpackMode, htmlBaseHref, signals,
     webpackInstance, lastReload, htmlInput, htmlPc, htmlRemaining, htmlBuf,
     htmlRead, pages, htmlQueue, rendered, htmlBuilt, htmlError, serving, watching,
     webpackWatching, events, changes, lastChange, graph, targets,
     buildGraph, stepState, runnerPc, run, inputs, dist, firstResult >>

mainVars ==
  << cmd, started, state, actionError, seq, isRunning, doneCallback, rsActive,
     rsOwner, taskSets, currentTaskSet, failed, failedStep, crashed, DEV_MODE,
     BASE_HREF, stylesMode, webpackMode, htmlBaseHref, signals,
     webpackInstance, lastReload, htmlInput, htmlPc, htmlRemaining, htmlBuf,
     htmlRead, pages, htmlQueue, rendered, htmlBuilt, htmlError, serving, watching,
     webpackWatching, events, changes, lastChange >>

resolverVars == << graph, targets, buildGraph, stepState, runnerPc >>

rerunVars == << run, inputs, dist, firstResult >>

modeVars == << BASE_HREF, stylesMode, webpackMode, htmlBaseHref, signals >>

(***************************************************************************)
(* The task runner and runSequence, as operators on a record w of their    *)
(* state: one event (a start call, a task's completion) runs all of its    *)
(* listeners before the next event is taken.                               *)
(***************************************************************************)
World ==
  [state |-> state, actionError |-> actionError, seq |-> seq,
   isRunning |-> isRunning, doneCallback |-> doneCallback,
   rsActive |-> rsActive, rsOwner |-> rsOwner, taskSets |-> taskSets,
   currentTaskSet |-> currentTaskSet, failed |-> failed,
   failedStep |-> failedStep, DEV_MODE |-> DEV_MODE,
   BASE_HREF |-> BASE_HREF, stylesMode |-> stylesMode,
   webpackMode |-> webpackMode, htmlBaseHref |-> htmlBaseHref,
   signals |-> signals, lastReload |-> lastReload]

Commit(w) ==
  /\ state' = w.state
  /\ actionError' = w.actionError
  /\ seq' = w.seq
  /\ isRunning' = w.isRunning
  /\ doneCallback' = w.doneCallback
  /\ rsActive' = w.rsActive
  /\ rsOwner' = w.rsOwner
  /\ taskSets' = w.taskSets
  /\ currentTaskSet' = w.currentTaskSet
  /\ failed' = w.failed
  /\ failedStep' = w.failedStep
  /\ DEV_MODE' = w.DEV_MODE
  /\ BASE_HREF' = w.BASE_HREF
  /\ stylesMode' = w.stylesMode
  /\ webpackMode' = w.webpackMode
  /\ htmlBaseHref' = w.htmlBaseHref
  /\ signals' = w.signals
  /\ lastReload' = w.lastReload

RECURSIVE DepClosure(_)
DepClosure(S) ==
  LET N == S \cup UNION {TaskDeps[t] : t \in S}
  IN  IF N = S THEN S ELSE DepClosure(N)

IsDone(w, t) == w.state[t] \in {"succeeded", "failed"}

\* orchestrator._readyToRunTask, for the tasks of the queue that are neither
\* done nor running: every dependency is done.
ReadyToRun(w) ==
  {t \in w.seq : w.state[t] = "pending" /\ \A d \in TaskDeps[t] : IsDone(w, d)}

\* Whether a step of the run in play ended in an error of any kind.
RunErrored(w) == \E t \in w.seq : w.actionError[t] # "none"

\* browserSync's reload, called with no argument, with a change event or
\* with the run's error: in each case a full reload of the browsers. The
\* record notes what the reload follows: a run of the task runner ("run"),
\* a change under app/res ("res") or a build of the watching compiler
\* ("webpack"); whether that run or build had an error; and whether every
\* task of the run was done.
Reload(w, src, err) ==
  [w EXCEPT !.lastReload =
     [source |-> src, afterFailure |-> err,
      runComplete |-> \A t \in w.seq : w.state[t] # "running"]]

\* orchestrator.stop: the run is over; an error sets the run's result; the
\* doneCallback, when one was given to start, is called with the error.
Stop(w, err) ==
  LET w1 == [w EXCEPT !.isRunning = FALSE, !.failed = @ \/ err]
  IN  IF w.doneCallback = "reload"
        THEN Reload(w1, "run", err \/ RunErrored(w1))
        ELSE w1

\* let BASE_HREF = DEV_MODE ? '/' : '/AndroidAssetStudio/'
BaseHref(dev) == IF dev THEN "/" ELSE "/AndroidAssetStudio/"

\* $.if(!DEV_MODE, $.csso())
StylesMode(dev) == IF dev THEN "plain" ELSE "minified"

\* webpackConfig.mode = DEV_MODE ? 'development' : 'production'
WebpackMode(dev) == IF dev THEN "development" ELSE "production"

RECURSIVE RunStep(_)
RECURSIVE OrchStart(_, _, _)

\* runSequence's runNextSet: start the next set. (Its other branch, finish
\* without error, is taken in SequenceListeners.)
RunNextSet(w) ==
  LET set == Head(w.taskSets)
      w1 == [w EXCEPT !.taskSets = Tail(@), !.currentTaskSet = set]
  IN  OrchStart(w1, set, "none")

\* runSequence(sets..., cb) called by task t.
RunSequence(w, t) ==
  RunNextSet([w EXCEPT !.rsActive = TRUE, !.rsOwner = t,
                       !.taskSets = SequenceSets(t)])

\* orchestrator._runStep: start every task that is ready, which calls its
\* function (styles, webpack and html read DEV_MODE or BASE_HREF when they
\* build their pipe or configuration; the serve task sets DEV_MODE and calls
\* runSequence; the default task calls runSequence); when every task of the
\* queue is done, stop.
RunStep(w) ==
  IF ~w.isRunning THEN w
  ELSE
    LET R == ReadyToRun(w)
        w1 == [w EXCEPT
                 !.state = [t \in Tasks |-> IF t \in R THEN "running" ELSE @[t]],
                 !.actionError = [t \in Tasks |-> IF t \in R THEN "none" ELSE @[t]],
                 !.signals = [t \in Tasks |-> IF t \in R THEN 0 ELSE @[t]],
                 !.stylesMode = IF "styles" \in R THEN StylesMode(w.DEV_MODE) ELSE @,
                 !.webpackMode = IF "webpack" \in R THEN WebpackMode(w.DEV_MODE) ELSE @,
                 !.htmlBaseHref = IF "html" \in R THEN w.BASE_HREF ELSE @]
        w2 == IF "default" \in R THEN RunSequence(w1, "default") ELSE w1
        w3 == IF "serve" \in R
                THEN RunSequence([w2 EXCEPT !.DEV_MODE = TRUE], "serve")
                ELSE w2
    IN  IF \A t \in w3.seq : IsDone(w3, t) THEN Stop(w3, FALSE) ELSE w3

\* orchestrator.start(names..., cb): a function given last becomes the
\* doneCallback; tasks that are done are reset (all of them when no run is in
\* play, the named ones and their dependencies otherwise), the names are put
\* before the queue, and the ready tasks are started.
OrchStart(w, names, cb) ==
  LET reset == IF w.isRunning THEN DepClosure(names) ELSE Tasks
      w1 == [w EXCEPT
               !.doneCallback = IF cb # "none" THEN cb ELSE @,
               !.state = [t \in Tasks |->
                            IF t \in reset /\ IsDone(w, t) THEN "pending"
                            ELSE @[t]],
               !.seq = DepClosure(names \cup (IF w.isRunning THEN @ ELSE {})),
               !.isRunning = TRUE]
  IN  RunStep(w1)

RECURSIVE TaskDone(_, _, _)

\* runSequence's listeners on task_stop (onTaskEnd) and task_err (onError).
SequenceListeners(w, t, err) ==
  IF ~w.rsActive THEN w
  ELSE IF err
    THEN \* finish(err): the listeners are removed, the callback gets the error
      TaskDone([w EXCEPT !.rsActive = FALSE], w.rsOwner, TRUE)
    ELSE
      LET w1 == [w EXCEPT !.currentTaskSet = @ \ {t}]
      IN  IF w1.currentTaskSet # {} THEN w1
          ELSE IF w1.taskSets # << >> THEN RunNextSet(w1)
          ELSE TaskDone([w1 EXCEPT !.rsActive = FALSE], w1.rsOwner, FALSE)

\* The completion of task t (the callback orchestrator._runTask gives to
\* runTask): the task is stopped, task_stop or task_err is emitted, and the
\* run is stopped on an error or stepped otherwise.
TaskDone(w, t, err) ==
  LET w1 == [w EXCEPT
               !.state[t] = IF err THEN "failed" ELSE "succeeded",
               !.signals[t] = @ + 1,
               !.failedStep = IF err /\ @ = "none" THEN t ELSE @]
      w2 == SequenceListeners(w1, t, err)
  IN  IF err THEN Stop(w2, TRUE) ELSE RunStep(w2)

\* The task runner's record after the external work of t ended with e.
Ended(t, e) ==
  TaskDone([World EXCEPT !.actionError[t] = e], t, e = "reported")

(***************************************************************************)
(* The html task's page collection.                                        *)
(***************************************************************************)
MaxFiles == 2

Files == 1 .. MaxFiles

\* The front matter of a file: its keys are the author's, and the last file
\* defines a key named all_pages of its own.
FrontMatter(f) ==
  IF f = MaxFiles
    THEN [title |-> f, all_pages |-> << >>]
    ELSE [title |-> f]

\* pageInfo = {path: file.path, data: file.frontMatter || {}}
PageInfo(f) == [path |-> f, data |-> FrontMatter(f)]

\* filesArray.forEach(file => pages.push(pageInfo))
PagesOf(buf) == [i \in 1 .. Len(buf) |-> PageInfo(buf[i])]

\* The context with the file's own all_pages key kept.
ContextDataOwnKeyKept(f, all) ==
  [k \in DOMAIN FrontMatter(f) \cup {"all_pages"} |->
     IF k \in DOMAIN FrontMatter(f) THEN FrontMatter(f)[k] ELSE all]

\* Object.assign(file.contextData, {all_pages: pages}), contextData being a
\* copy of the file's front matter.
ContextData(f, all) ==
  [k \in DOMAIN FrontMatter(f) \cup {"all_pages"} |->
     IF k = "all_pages" THEN all ELSE FrontMatter(f)[k]]

\* The html task function is called: gulp.src selects the input files and
\* pages is a new empty array.
HtmlStarts(w) == state["html"] # "running" /\ w.state["html"] = "running"

HtmlFrame(w) ==
  IF HtmlStarts(w)
    THEN /\ htmlInput' \in SUBSET Files
         /\ htmlRemaining' = htmlInput'
         /\ htmlPc' = "collect"
         /\ htmlBuf' = << >>
         /\ htmlRead' = << >>
         /\ pages' = << >>
         /\ htmlQueue' = << >>
         /\ rendered' = [f \in {} |-> << >>]
         /\ htmlBuilt' = {}
         /\ htmlError' = {}
    ELSE UNCHANGED htmlVars

NoPath == [dir |-> "none", ext |-> "none"]

(***************************************************************************)
(* The dependency resolver and the start of a run of the pipeline runner,  *)
(* for any registered step graph.                                          *)
(***************************************************************************)
MaxSteps == 3

Steps == 1 .. MaxSteps

\* Every step graph over Steps: each step with any set of dependencies.
StepGraphs == [Steps -> SUBSET Steps]

EmptyStages == [s \in {} |-> 0]

NoGraph == [error |-> "none", stage |-> EmptyStages]

MaxOf(S) == CHOOSE m \in S : \A n \in S : n <= m

RECURSIVE Visit(_, _, _, _)
RECURSIVE VisitAll(_, _, _, _)

\* The depth-first traversal from step s: black holds the stage of every
\* step whose traversal is over, gray the steps whose traversal is in
\* progress. A step met while gray is on a cycle.
Visit(g, s, gray, black) ==
  IF s \in DOMAIN black THEN [cyclic |-> FALSE, black |-> black]
  ELSE IF s \in gray THEN [cyclic |-> TRUE, black |-> black]
  ELSE
    LET r == VisitAll(g, g[s], gray \cup {s}, black)
        n == IF g[s] = {} THEN 0 ELSE 1 + MaxOf({r.black[d] : d \in g[s]})
    IN  IF r.cyclic THEN r
        ELSE [cyclic |-> FALSE, black |-> (s :> n) @@ r.black]

VisitAll(g, S, gray, black) ==
  IF S = {} THEN [cyclic |-> FALSE, black |-> black]
  ELSE
    LET s == CHOOSE x \in S : TRUE
        r == Visit(g, s, gray, black)
    IN  IF r.cyclic THEN r ELSE VisitAll(g, S \ {s}, gray, r.black)

\* resolve with a partial graph left in the result of a failed resolution.
ResolveKeepingPartial(g, T) ==
  LET r == VisitAll(g, T, {}, EmptyStages)
  IN  [error |-> IF r.cyclic THEN "CyclicDependencyError" ELSE "none",
       stage |-> r.black]

\* resolve(targetNames): the stage of every step of the transitive closure
\* of the targets, or CyclicDependencyError and no graph.
Resolve(g, T) ==
  LET r == VisitAll(g, T, {}, EmptyStages)
  IN  IF r.cyclic
        THEN [error |-> "CyclicDependencyError", stage |-> EmptyStages]
        ELSE [error |-> "none", stage |-> r.black]

(***************************************************************************)
(* The actions.                                                            *)
(***************************************************************************)
MainInit ==
  /\ cmd \in Commands
  /\ started = FALSE
  /\ state = [t \in Tasks |-> "pending"]
  /\ actionError = [t \in Tasks |-> "none"]
  /\ seq = {}
  /\ isRunning = FALSE
  /\ doneCallback = "none"
  /\ rsActive = FALSE
  /\ rsOwner = "none"
  /\ taskSets = << >>
  /\ currentTaskSet = {}
  /\ failed = FALSE
  /\ failedStep = "none"
  /\ crashed = FALSE
  /\ DEV_MODE = FALSE
  /\ BASE_HREF = BaseHref(DEV_MODE)
  /\ stylesMode = "unset"
  /\ webpackMode = "unset"
  /\ htmlBaseHref = "unset"
  /\ signals = [t \in Tasks |-> 0]
  /\ webpackInstance = FALSE
  /\ lastReload = [source |-> "none", afterFailure |-> FALSE,
                   runComplete |-> TRUE]
  /\ htmlInput = {}
  /\ htmlPc = "idle"
  /\ htmlRemaining = {}
  /\ htmlBuf = << >>
  /\ htmlRead = << >>
  /\ pages = << >>
  /\ htmlQueue = << >>
  /\ rendered = [f \in {} |-> << >>]
  /\ htmlBuilt = {}
  /\ htmlError = {}
  /\ serving = "none"
  /\ watching = FALSE
  /\ webpackWatching = FALSE
  /\ events = {}
  /\ changes = 0
  /\ lastChange = [path |-> NoPath, ran |-> {}]

\* The steps whose function does external work on the files.
LeafSteps ==
  {"clean", "styles", "webpack", "html", "res", "copy", "service-worker"}

\* An empty output tree.
NoDist == [t \in LeafSteps |-> 0]

NoInputs == [outcome |-> [t \in LeafSteps |-> "none"], bad |-> {}]

NoResult == [succeeded |-> FALSE, left |-> {}]

\* One run, whose inputs and output tree are not looked at.
SingleRun ==
  /\ run = 1
  /\ inputs = NoInputs
  /\ dist = NoDist
  /\ firstResult = NoResult

\* In the runs of the build file the step graph is the registered one.
Init ==
  /\ MainInit
  /\ SingleRun
  /\ graph = TaskDeps
  /\ targets = {cmd}
  /\ buildGraph = NoGraph
  /\ stepState = [s \in DOMAIN graph |-> "pending"]
  /\ runnerPc = "idle"

\* The command line starts the target: gulp.start(cmd).
CliStart ==
  /\ ~started /\ ~crashed
  /\ started' = TRUE
  /\ LET w == OrchStart(World, {cmd}, "none")
     IN  Commit(w) /\ HtmlFrame(w)
  /\ UNCHANGED << cmd, crashed, webpackInstance >>
  /\ UNCHANGED watchVars

\* A leaf task whose work is one external call ends with outcome e.
TaskEnds(t, e) ==
  /\ ~crashed
  /\ state[t] = "running"
  /\ actionError[t] = "none"
  /\ e \in ActionErrors(t) \ {"fatal"}
  /\ LET w == Ended(t, e)
     IN  Commit(w) /\ HtmlFrame(w)
  /\ UNCHANGED << cmd, started, crashed >>
  /\ UNCHANGED watchVars

\* An exception outside the task function's call: the process dies.
TaskCrashes(t) ==
  /\ ~crashed
  /\ state[t] = "running"
  /\ actionError[t] \in {"none", "swallowed"}
  /\ "fatal" \in ActionErrors(t)
  /\ actionError' = [actionError EXCEPT ![t] = "fatal"]
  /\ crashed' = TRUE
  /\ UNCHANGED << cmd, started, state, seq, isRunning, doneCallback, rsActive,
                  rsOwner, taskSets, currentTaskSet, failed, failedStep,
                  DEV_MODE, modeVars, webpackInstance, lastReload >>
  /\ UNCHANGED htmlVars
  /\ UNCHANGED watchVars

\* clean: del.sync throws or not; cb().
CleanEnds ==
  /\ \E e \in Errors : TaskEnds("clean", e)
  /\ UNCHANGED webpackInstance

\* styles: the stream ends (a Sass error is logged by errorHandler, which
\* ends the stream by hand), or gulp.dest fails.
StylesEnds ==
  /\ \E e \in Errors : TaskEnds("styles", e)
  /\ UNCHANGED webpackInstance

StylesCrashes == TaskCrashes("styles")

\* res: the stream ends or gulp.dest fails.
ResEnds ==
  /\ \E e \in Errors : TaskEnds("res", e)
  /\ UNCHANGED webpackInstance

ResCrashes == TaskCrashes("res")

\* copy: the merged stream ends or fails.
CopyEnds ==
  /\ \E e \in Errors : TaskEnds("copy", e)
  /\ UNCHANGED webpackInstance

\* service-worker: the promise of injectManifest is resolved or rejected.
ServiceWorkerEnds ==
  /\ \E e \in Errors : TaskEnds("service-worker", e)
  /\ UNCHANGED webpackInstance

\* webpack: require or webpack() throws in the task function ("reported"), or
\* webpackInstance is set and webpack calls back (err, stats): with stats,
\* they are printed and cb() is called without an error, whether or not the
\* compilation has errors.
WebpackEnds ==
  /\ \E e \in Errors :
       /\ TaskEnds("webpack", e)
       /\ webpackInstance' = (webpackInstance \/ e # "reported")

\* webpack calls back with an error and no stats: stats.toString throws
\* before cb() is reached, so the task never completes; the exception kills
\* the process unless a promise of webpack's absorbs it.
WebpackCallbackThrows ==
  /\ ~crashed
  /\ state["webpack"] = "running"
  /\ actionError["webpack"] = "none"
  /\ actionError' = [actionError EXCEPT !["webpack"] = "fatal"]
  /\ crashed' \in BOOLEAN
  /\ webpackInstance' = TRUE
  /\ UNCHANGED << cmd, started, state, seq, isRunning, doneCallback, rsActive,
                  rsOwner, taskSets, currentTaskSet, failed, failedStep,
                  DEV_MODE, modeVars, lastReload >>
  /\ UNCHANGED htmlVars
  /\ UNCHANGED watchVars

(***************************************************************************)
(* The html task, file by file.                                            *)
(***************************************************************************)
\* gulp.src reads a file and frontMatter extracts its front matter: the file
\* gets its contextData and is held by the buffer; or the extraction fails,
\* errorHandler logs the error and ends the frontMatter stream by hand, so
\* that the buffer is flushed with the files it holds and gulp.src, unpiped,
\* is read no further.
HtmlFrontMatter ==
  /\ ~crashed
  /\ state["html"] = "running"
  /\ htmlPc = "collect"
  /\ \E f \in htmlRemaining, ok \in BOOLEAN :
       /\ htmlRead' = Append(htmlRead, f)
       /\ IF ok
            THEN /\ htmlBuf' = Append(htmlBuf, f)
                 /\ htmlRemaining' = htmlRemaining \ {f}
                 /\ UNCHANGED << pages, htmlQueue, htmlPc, actionError,
                                 htmlError >>
            ELSE /\ htmlRemaining' = {}
                 /\ pages' = PagesOf(htmlBuf)
                 /\ htmlQueue' = htmlBuf
                 /\ htmlPc' = "render"
                 /\ actionError' = [actionError EXCEPT !["html"] = "swallowed"]
                 /\ htmlError' = htmlError \cup {"frontMatter"}
                 /\ UNCHANGED htmlBuf
  /\ UNCHANGED << cmd, started, state, seq, isRunning, doneCallback, rsActive,
                  rsOwner, taskSets, currentTaskSet, failed, failedStep,
                  crashed, DEV_MODE, modeVars, webpackInstance, lastReload, htmlInput,
                  rendered, htmlBuilt >>
  /\ UNCHANGED watchVars

\* gulp.src has read every file: the buffer is flushed, the pages array is
\* filled from the files it held and each file is emitted again.
HtmlBufferFlush ==
  /\ ~crashed
  /\ state["html"] = "running"
  /\ htmlPc = "collect"
  /\ htmlRemaining = {}
  /\ pages' = PagesOf(htmlBuf)
  /\ htmlQueue' = htmlBuf
  /\ htmlPc' = "render"
  /\ UNCHANGED << cmd, started, state, actionError, seq, isRunning,
                  doneCallback, rsActive, rsOwner, taskSets, currentTaskSet,
                  failed, failedStep, crashed, DEV_MODE, modeVars, webpackInstance,
                  lastReload, htmlInput, htmlRemaining, htmlBuf, htmlRead,
                  rendered, htmlBuilt, htmlError >>
  /\ UNCHANGED watchVars

\* The next re-emitted file gets all_pages in its contextData and goes
\* through swig: it is rendered and written to .tmp and dist; or swig fails,
\* errorHandler logs the error and ends the swig stream by hand, and the
\* files behind it are not rendered.
HtmlRender ==
  /\ ~crashed
  /\ state["html"] = "running"
  /\ htmlPc = "render"
  /\ htmlQueue # << >>
  /\ LET f == Head(htmlQueue)
     IN  /\ rendered' = [g \in DOMAIN rendered \cup {f} |->
                            IF g = f THEN ContextData(f, pages)
                            ELSE rendered[g]]
         /\ \E ok \in BOOLEAN :
              IF ok
                THEN /\ htmlBuilt' = htmlBuilt \cup {f}
                     /\ htmlQueue' = Tail(htmlQueue)
                     /\ UNCHANGED << actionError, htmlError >>
                ELSE /\ htmlQueue' = << >>
                     /\ actionError' =
                          [actionError EXCEPT !["html"] = "swallowed"]
                     /\ htmlError' = htmlError \cup {"swig"}
                     /\ UNCHANGED htmlBuilt
  /\ UNCHANGED << cmd, started, state, seq, isRunning, doneCallback, rsActive,
                  rsOwner, taskSets, currentTaskSet, failed, failedStep,
                  crashed, DEV_MODE, modeVars, webpackInstance, lastReload, htmlInput,
                  htmlPc, htmlRemaining, htmlBuf, htmlRead, pages >>
  /\ UNCHANGED watchVars

\* The returned stream (gulp.dest) finishes, or fails.
HtmlEnds ==
  /\ ~crashed
  /\ state["html"] = "running"
  /\ htmlPc = "render"
  /\ htmlQueue = << >>
  /\ \E err \in BOOLEAN :
       LET e == IF err THEN "reported" ELSE actionError["html"]
           w == Ended("html", e)
       IN  Commit(w)
  /\ htmlPc' = "idle"
  /\ UNCHANGED << cmd, started, crashed, webpackInstance, htmlInput,
                  htmlRemaining, htmlBuf, htmlRead, pages, htmlQueue, rendered,
                  htmlBuilt, htmlError >>
  /\ UNCHANGED watchVars

HtmlCrashes == TaskCrashes("html")

(***************************************************************************)
(* The serve targets and the watchers.                                     *)
(***************************************************************************)
\* The function of __serve__: browserSync serves .tmp, dist and app, the
\* three watchers are registered, and the webpack compiler, when set, is
\* put in watch mode. The function returns and the task is done.
ServeInnerEnds ==
  /\ ~crashed
  /\ state["__serve__"] = "running"
  /\ serving' = "dev"
  /\ watching' = TRUE
  /\ webpackWatching' = webpackInstance
  /\ LET w == Ended("__serve__", "none")
     IN  Commit(w) /\ HtmlFrame(w)
  /\ UNCHANGED << cmd, started, crashed, webpackInstance, events, changes,
                  lastChange >>

\* The function of serve:dist: browserSync serves dist.
ServeDistEnds ==
  /\ ~crashed
  /\ state["serve:dist"] = "running"
  /\ serving' = "dist"
  /\ LET w == Ended("serve:dist", "none")
     IN  Commit(w) /\ HtmlFrame(w)
  /\ UNCHANGED << cmd, started, crashed, webpackInstance, watching,
                  webpackWatching, events, changes, lastChange >>

\* Sample paths under app, as a directory and an extension.
Dirs == {"app/html", "app/res"}

Exts == {"html", "scss", "png"}

Paths == [dir : Dirs, ext : Exts]

Watchers == {"html", "styles", "res"}

\* The globs given to gulp.watch: 'app/html/**/*.html',
\* 'app/**/*.{scss,css}' and 'app/res/**/*'.
Matches(wt, p) ==
  CASE wt = "html" -> p.dir = "app/html" /\ p.ext = "html"
    [] wt = "styles" -> p.ext \in {"scss", "css"}
    [] wt = "res" -> p.dir = "app/res"

MaxChanges == 1

\* A file under app changes: each watcher whose glob matches gets an event.
FileChange ==
  /\ ~crashed
  /\ watching
  /\ \E p \in Paths :
       LET evs == {[watcher |-> wt, path |-> p] : wt \in {x \in Watchers : Matches(x, p)}}
       IN  /\ evs # {}
           /\ changes < MaxChanges
           /\ changes' = changes + 1
           /\ events' = events \cup evs
           /\ lastChange' = [path |-> p, ran |-> {}]
  /\ UNCHANGED << cmd, started, state, actionError, seq, isRunning,
                  doneCallback, rsActive, rsOwner, taskSets, currentTaskSet,
                  failed, failedStep, crashed, DEV_MODE, modeVars, webpackInstance,
                  lastReload, serving, watching, webpackWatching >>
  /\ UNCHANGED htmlVars

\* The tasks an event's handler asked the task runner for and the tasks the
\* runner started then, noted for the last changed path.
NoteRan(ev, names, w) ==
  lastChange' =
    IF lastChange.path = ev.path
      THEN [lastChange EXCEPT
              !.ran = @ \cup names
                        \cup {t \in Tasks : state[t] # "running"
                                            /\ w.state[t] = "running"}]
      ELSE lastChange

\* Every watcher given both task names.
WatcherTasksAll(wt) == {"html", "styles"}

\* The task names in the arrays given to gulp.watch.
WatcherTasks(wt) == {wt}

\* gulp.watch(glob, [task, reload]): the handler calls
\* gulp.start(task, reload), which makes reload the doneCallback.
WatcherStarts(ev) ==
  /\ ~crashed
  /\ ev \in events
  /\ events' = events \ {ev}
  /\ LET w == OrchStart(World, WatcherTasks(ev.watcher), "reload")
     IN  Commit(w) /\ HtmlFrame(w) /\ NoteRan(ev, WatcherTasks(ev.watcher), w)
  /\ UNCHANGED << cmd, started, crashed, webpackInstance, serving, watching,
                  webpackWatching, changes >>

HtmlWatcher == \E ev \in events : ev.watcher = "html" /\ WatcherStarts(ev)

StylesWatcher == \E ev \in events : ev.watcher = "styles" /\ WatcherStarts(ev)

\* gulp.watch(['app/res/**/*'], reload): the handler is reload.
ResWatcher ==
  /\ ~crashed
  /\ \E ev \in events :
       /\ ev.watcher = "res"
       /\ events' = events \ {ev}
       /\ Commit(Reload(World, "res", FALSE))
  /\ UNCHANGED << cmd, started, crashed, webpackInstance, serving, watching,
                  webpackWatching, changes, lastChange >>
  /\ UNCHANGED htmlVars

\* The callback of webpackInstance.watch, called after each build of the
\* watching compiler: the stats are printed and reload is called, whether or
\* not the build has errors.
WebpackWatchCallback ==
  /\ ~crashed
  /\ webpackWatching
  /\ \E err \in BOOLEAN : Commit(Reload(World, "webpack", err))
  /\ UNCHANGED << cmd, started, crashed, webpackInstance >>
  /\ UNCHANGED htmlVars
  /\ UNCHANGED watchVars

\* The watching compiler calls back with an error and no stats:
\* stats.toString throws and reload is not reached.
WebpackWatchCallbackThrows ==
  /\ ~crashed
  /\ webpackWatching
  /\ crashed' \in BOOLEAN
  /\ webpackWatching' = FALSE
  /\ UNCHANGED << cmd, started, state, actionError, seq, isRunning,
                  doneCallback, rsActive, rsOwner, taskSets, currentTaskSet,
                  failed, failedStep, DEV_MODE, modeVars, webpackInstance, lastReload,
                  serving, watching, events, changes, lastChange >>
  /\ UNCHANGED htmlVars

BuildNext ==
  \/ CliStart
  \/ CleanEnds
  \/ StylesEnds
  \/ StylesCrashes
  \/ ResEnds
  \/ ResCrashes
  \/ CopyEnds
  \/ ServiceWorkerEnds
  \/ WebpackEnds
  \/ WebpackCallbackThrows
  \/ HtmlFrontMatter
  \/ HtmlBufferFlush
  \/ HtmlRender
  \/ HtmlEnds
  \/ HtmlCrashes
  \/ ServeInnerEnds
  \/ ServeDistEnds
  \/ FileChange
  \/ HtmlWatcher
  \/ StylesWatcher
  \/ ResWatcher
  \/ WebpackWatchCallback
  \/ WebpackWatchCallbackThrows

Next == BuildNext /\ UNCHANGED resolverVars /\ UNCHANGED rerunVars

Spec == Init /\ [][Next]_vars

(***************************************************************************)
(* The resolver on any step graph: the graph and the targets are drawn,    *)
(* resolve is applied, and a run request starts the first stage or aborts. *)
(***************************************************************************)
ResolverInit ==
  /\ MainInit
  /\ SingleRun
  /\ cmd = "default"
  /\ \/ graph \in StepGraphs /\ targets \in (SUBSET Steps \ {{}})
     \/ graph = TaskDeps /\ targets \in {{c} : c \in Commands}
  /\ buildGraph = NoGraph
  /\ stepState = [s \in DOMAIN graph |-> "pending"]
  /\ runnerPc = "idle"

\* resolve(targets) on the registered graph.
ResolveTargets ==
  /\ runnerPc = "idle"
  /\ buildGraph' = Resolve(graph, targets)
  /\ runnerPc' = "resolved"
  /\ UNCHANGED << graph, targets, stepState >>
  /\ UNCHANGED mainVars
  /\ UNCHANGED rerunVars

\* runTarget(targets): the graph is resolved; a resolution error aborts the
\* request before any step runs; otherwise the steps of stage 0 are launched.
RunTarget ==
  /\ runnerPc \in {"idle", "resolved"}
  /\ LET bg == Resolve(graph, targets)
     IN  /\ buildGraph' = bg
         /\ IF bg.error # "none"
              THEN /\ runnerPc' = "aborted"
                   /\ UNCHANGED stepState
              ELSE /\ runnerPc' = "started"
                   /\ stepState' =
                        [s \in DOMAIN graph |->
                           IF s \in DOMAIN bg.stage /\ bg.stage[s] = 0
                             THEN "running" ELSE "pending"]
  /\ UNCHANGED << graph, targets >>
  /\ UNCHANGED mainVars
  /\ UNCHANGED rerunVars

ResolverNext ==
  \/ ResolveTargets
  \/ RunTarget

ResolverSpec == ResolverInit /\ [][ResolverNext]_vars

(***************************************************************************)
(* The target run again: the command is given a second time, in a new      *)
(* process, on unchanged inputs. How the action of each step ends is fixed *)
(* by the inputs; what the process holds is new in each run; the output    *)
(* tree stays on disk from one run to the next.                            *)
(***************************************************************************)
MaxRuns == 2

\* Unchanged inputs: the outcome of each step's action, and for an html
\* action whose error is swallowed the file whose front matter is malformed.
RerunInputs ==
  {i \in [outcome : [LeafSteps -> Errors], bad : SUBSET Files] :
     /\ \A t \in LeafSteps : i.outcome[t] \in ActionErrors(t)
     /\ Cardinality(i.bad) <= 1
     /\ i.bad # {} <=> i.outcome["html"] = "swallowed"}

RerunInit ==
  /\ MainInit
  /\ cmd \in {"default", "serve:dist"}
  /\ graph = TaskDeps
  /\ targets = {cmd}
  /\ buildGraph = NoGraph
  /\ stepState = [s \in DOMAIN graph |-> "pending"]
  /\ runnerPc = "idle"
  /\ run = 1
  /\ inputs \in RerunInputs
  /\ dist = NoDist
  /\ firstResult = NoResult

\* The result of the run: the task runner stopped without an error and the
\* process did not die.
Succeeded == started /\ ~isRunning /\ ~failed /\ ~crashed

\* Nothing more happens in the process: it died, or no step's function has
\* an action that has still to end.
Quiet ==
  /\ started
  /\ \/ crashed
     \/ \A t \in LeafSteps \cup {"serve:dist"} :
          state[t] = "running" => actionError[t] = "fatal"

\* What an action of a run leaves alone; gulp.src of html selects the same
\* files in each run.
RerunFrame ==
  /\ state["html"] # "running" /\ state'["html"] = "running" =>
       htmlInput' = Files
  /\ UNCHANGED << run, inputs, firstResult >>
  /\ UNCHANGED resolverVars

\* gulp.dest of step t writes its output when the action ends without error.
Wrote(t) ==
  dist' = IF actionError'[t] = "none" THEN [dist EXCEPT ![t] = run] ELSE dist

\* The action of t ends the way the inputs make it end.
AsInputs(t) == actionError'[t] = inputs.outcome[t]

RerunCliStart == CliStart /\ UNCHANGED dist /\ RerunFrame

\* del.sync(['.tmp', 'dist'])
RerunCleanEnds ==
  /\ CleanEnds
  /\ AsInputs("clean")
  /\ dist' = IF inputs.outcome["clean"] = "none" THEN NoDist ELSE dist
  /\ RerunFrame

RerunStylesEnds ==
  StylesEnds /\ AsInputs("styles") /\ Wrote("styles") /\ RerunFrame

RerunStylesCrashes ==
  /\ inputs.outcome["styles"] = "fatal"
  /\ StylesCrashes /\ UNCHANGED dist /\ RerunFrame

RerunResEnds == ResEnds /\ AsInputs("res") /\ Wrote("res") /\ RerunFrame

RerunResCrashes ==
  /\ inputs.outcome["res"] = "fatal"
  /\ ResCrashes /\ UNCHANGED dist /\ RerunFrame

RerunCopyEnds == CopyEnds /\ AsInputs("copy") /\ Wrote("copy") /\ RerunFrame

RerunServiceWorkerEnds ==
  /\ ServiceWorkerEnds
  /\ AsInputs("service-worker")
  /\ Wrote("service-worker")
  /\ RerunFrame

RerunWebpackEnds ==
  WebpackEnds /\ AsInputs("webpack") /\ Wrote("webpack") /\ RerunFrame

RerunWebpackCallbackThrows ==
  /\ inputs.outcome["webpack"] = "fatal"
  /\ WebpackCallbackThrows /\ UNCHANGED dist /\ RerunFrame

\* gulp.src emits the files in the same order in each run, and the front
\* matter of the file read is malformed or not, as the inputs say.
RerunHtmlFrontMatter ==
  /\ HtmlFrontMatter
  /\ \A g \in htmlRemaining : htmlRead'[Len(htmlRead')] <= g
  /\ "frontMatter" \in htmlError' <=> htmlRead'[Len(htmlRead')] \in inputs.bad
  /\ UNCHANGED dist
  /\ RerunFrame

RerunHtmlBufferFlush == HtmlBufferFlush /\ UNCHANGED dist /\ RerunFrame

\* The templates render; gulp.dest writes the page.
RerunHtmlRender ==
  /\ HtmlRender
  /\ htmlError' = htmlError
  /\ dist' = [dist EXCEPT !["html"] = run]
  /\ RerunFrame

RerunHtmlEnds ==
  /\ inputs.outcome["html"] # "fatal"
  /\ HtmlEnds
  /\ state'["html"] = "failed" <=> inputs.outcome["html"] = "reported"
  /\ UNCHANGED dist
  /\ RerunFrame

RerunHtmlCrashes ==
  /\ inputs.outcome["html"] = "fatal"
  /\ HtmlCrashes /\ UNCHANGED dist /\ RerunFrame

RerunServeDistEnds == ServeDistEnds /\ UNCHANGED dist /\ RerunFrame

\* The command is given again once nothing more happens in the process of
\* the run before: a new process loads the build file (DEV_MODE is false,
\* webpackInstance is unset, no task has run); the output tree is as the run
\* before left it.
Restart ==
  /\ run < MaxRuns
  /\ Quiet
  /\ run' = run + 1
  /\ firstResult' =
       IF run = 1
         THEN [succeeded |-> Succeeded, left |-> {t \in LeafSteps : dist[t] # 0}]
         ELSE firstResult
  /\ started' = FALSE
  /\ state' = [t \in Tasks |-> "pending"]
  /\ actionError' = [t \in Tasks |-> "none"]
  /\ seq' = {}
  /\ isRunning' = FALSE
  /\ doneCallback' = "none"
  /\ rsActive' = FALSE
  /\ rsOwner' = "none"
  /\ taskSets' = << >>
  /\ currentTaskSet' = {}
  /\ failed' = FALSE
  /\ failedStep' = "none"
  /\ crashed' = FALSE
  /\ DEV_MODE' = FALSE
  /\ BASE_HREF' = BaseHref(FALSE)
  /\ stylesMode' = "unset"
  /\ webpackMode' = "unset"
  /\ htmlBaseHref' = "unset"
  /\ signals' = [t \in Tasks |-> 0]
  /\ webpackInstance' = FALSE
  /\ lastReload' = [source |-> "none", afterFailure |-> FALSE,
                    runComplete |-> TRUE]
  /\ htmlInput' = {}
  /\ htmlPc' = "idle"
  /\ htmlRemaining' = {}
  /\ htmlBuf' = << >>
  /\ htmlRead' = << >>
  /\ pages' = << >>
  /\ htmlQueue' = << >>
  /\ rendered' = [f \in {} |-> << >>]
  /\ htmlBuilt' = {}
  /\ htmlError' = {}
  /\ serving' = "none"
  /\ UNCHANGED << cmd, watching, webpackWatching, events, changes, lastChange,
                  inputs, dist >>
  /\ UNCHANGED resolverVars

RerunNext ==
  \/ RerunCliStart
  \/ RerunCleanEnds
  \/ RerunStylesEnds
  \/ RerunStylesCrashes
  \/ RerunResEnds
  \/ RerunResCrashes
  \/ RerunCopyEnds
  \/ RerunServiceWorkerEnds
  \/ RerunWebpackEnds
  \/ RerunWebpackCallbackThrows
  \/ RerunHtmlFrontMatter
  \/ RerunHtmlBufferFlush
  \/ RerunHtmlRender
  \/ RerunHtmlEnds
  \/ RerunHtmlCrashes
  \/ RerunServeDistEnds
  \/ Restart

RerunSpec == RerunInit /\ [][RerunNext]_vars

(***************************************************************************)
(* Properties of the build runs.                                           *)
(***************************************************************************)
Completed(t) == state[t] \in {"succeeded", "failed"}

\* A run of the default target: by itself or as the dependency of serve:dist.
DefaultRun == cmd \in {"default", "serve:dist"}

\* The run of the target is over.
RunOver == started /\ ~isRunning

ContentSteps == {"webpack", "html", "res", "copy"}

\* C1: in every run of the default target, clean completes before styles
\* starts, styles completes before any of webpack, html, res and copy starts,
\* those four start together (none waits for another), and service-worker
\* starts only after styles and all four have completed.
C1_DefaultOrder ==
  DefaultRun =>
    /\ state["styles"] # "pending" => Completed("clean")
    /\ \A t \in ContentSteps :
         state[t] # "pending" =>
           /\ Completed("styles")
           /\ \A u \in ContentSteps : state[u] # "pending"
    /\ state["service-worker"] # "pending" =>
         \A t \in ContentSteps \cup {"styles"} : Completed(t)

C1_Witness ==
  /\ cmd = "default"
  /\ RunOver
  /\ \A t \in ContentSteps \cup {"clean", "styles", "service-worker", "default"} :
       state[t] = "succeeded"

\* The steps that share a stage with t in the run of the target.
Siblings(t) ==
  IF DefaultRun
    THEN IF t \in ContentSteps THEN ContentSteps \ {t} ELSE {}
    ELSE IF t \in {"styles", "html", "webpack"}
           THEN {"styles", "html", "webpack"} \ {t}
           ELSE {}

\* No step of a stage is started while a step of the stage before is pending
\* or running.
C2_StageBarrier ==
  /\ DefaultRun =>
       /\ state["default"] # "pending" => Completed("clean")
       /\ state["styles"] # "pending" => Completed("clean")
       /\ \A t \in ContentSteps : state[t] # "pending" => Completed("styles")
       /\ state["service-worker"] # "pending" =>
            \A t \in ContentSteps : Completed(t)
       /\ state["serve:dist"] # "pending" => Completed("default")
  /\ cmd = "serve" /\ changes = 0 /\ state["__serve__"] # "pending" =>
       \A t \in {"styles", "html", "webpack"} : Completed(t)

\* A step that is running when a sibling's action fails does not end up
\* running in a process that is dead.
C2_SiblingsFinish ==
  \A t \in Tasks :
    ~ /\ crashed
      /\ state[t] = "running"
      /\ actionError[t] = "none"
      /\ \E s \in Siblings(t) : actionError[s] # "none"

\* C2: no step of a stage is started while a step of the stage before is
\* pending or running, and a step that is running when a sibling fails is
\* not cancelled and can still reach a completed state.
C2_StagesAndSiblings == C2_StageBarrier /\ C2_SiblingsFinish

\* C3: fail-fast: once the action of a step has failed, no step of a later
\* stage is started in that run.
C3_FailFast ==
  DefaultRun =>
    /\ actionError["clean"] # "none" =>
         \A t \in ContentSteps \cup {"styles", "service-worker"} :
           state[t] = "pending"
    /\ actionError["styles"] # "none" =>
         \A t \in ContentSteps \cup {"service-worker"} : state[t] = "pending"
    /\ \A a \in ContentSteps :
         actionError[a] # "none" => state["service-worker"] = "pending"

\* C4: a step whose action failed never ends succeeded, the result of the
\* run names a failed step, and a run without a failure report had no step
\* whose action failed.
C4_ErrorsFailTheRun ==
  DefaultRun =>
    /\ \A t \in Tasks : actionError[t] # "none" => state[t] # "succeeded"
    /\ failed => failedStep # "none" /\ actionError[failedStep] # "none"
    /\ RunOver /\ ~failed => \A t \in Tasks : actionError[t] = "none"

\* C5: every context given to the template renderer holds the page records
\* of all input files of the invocation.
C5_ContextHasAllPages ==
  \A f \in DOMAIN rendered :
    LET all == rendered[f]["all_pages"]
    IN  /\ Len(all) = Cardinality(htmlInput)
        /\ {all[i].path : i \in 1 .. Len(all)} = htmlInput

\* C6: when the extraction of a file's metadata fails, the html step does not
\* succeed, no page is built and the run is reported failed.
C6_MetadataFailureFailsStep ==
  "frontMatter" \in htmlError =>
    /\ state["html"] # "succeeded"
    /\ htmlBuilt = {}
    /\ RunOver => failed

\* C7: a reload is emitted only after the run has completed and only if it
\* succeeded.
C7_ReloadOnlyAfterSuccess ==
  lastReload.source # "none" =>
    /\ lastReload.runComplete
    /\ ~lastReload.afterFailure

\* The steps declared for a path: styles for a stylesheet anywhere under
\* app, html for a page under app/html, none for app/res.
C8_StepsFor(p) ==
  (IF p.ext \in {"scss", "css"} THEN {"styles"} ELSE {})
    \cup (IF p.dir = "app/html" /\ p.ext = "html" THEN {"html"} ELSE {})

\* C8: the steps run for a changed path are steps declared for the patterns
\* it matches, and once every watcher has handled the change they are
\* exactly those steps.
C8_ChangeRunsDeclaredSteps ==
  LET p == lastChange.path
  IN  p # NoPath =>
        /\ lastChange.ran \subseteq C8_StepsFor(p)
        /\ (\A ev \in events : ev.path # p) => lastChange.ran = C8_StepsFor(p)

C8_Witness ==
  /\ lastChange.path = [dir |-> "app/html", ext |-> "scss"]
  /\ lastChange.ran = {"styles"}
  /\ events = {}
  /\ state["styles"] = "succeeded"
  /\ \A t \in Tasks \ {"styles"} : state[t] = "pending"

\* C12: in every html invocation, the initial one and those the watcher
\* triggers, the page records used are one per input file the invocation
\* has read, in the order the files were read, with nothing carried over
\* from an earlier invocation and nothing twice.
C12_PagesAreTheFilesRead ==
  htmlPc # "collect" =>
    [i \in 1 .. Len(pages) |-> pages[i].path] = htmlRead

\* C17: the all_pages entry of every rendered page's context is the page
\* record sequence of the invocation, also for a page whose front matter
\* has a key all_pages; every other key of the page's front matter is in
\* its context unchanged; and the page records still hold each file's own
\* front matter after contexts were built.
C17_ContextKeys ==
  /\ \A f \in DOMAIN rendered :
       /\ DOMAIN rendered[f] = DOMAIN FrontMatter(f) \cup {"all_pages"}
       /\ rendered[f]["all_pages"] = pages
       /\ \A k \in DOMAIN FrontMatter(f) \ {"all_pages"} :
            rendered[f][k] = FrontMatter(f)[k]
  /\ \A i \in 1 .. Len(pages) :
       pages[i] = [path |-> pages[i].path, data |-> FrontMatter(pages[i].path)]

C17_Witness ==
  /\ "all_pages" \in DOMAIN FrontMatter(MaxFiles)
  /\ MaxFiles \in DOMAIN rendered
  /\ MaxFiles \in htmlBuilt
  /\ Len(pages) = MaxFiles
  /\ DOMAIN rendered = Files

\* A run of the serve target is a development run, any other a production
\* run.
DevRun == cmd = "serve"

\* C13: the mode-dependent decisions of a run agree with its build mode: in
\* a serve run styles are not minified, webpack's mode is development and
\* html replaces %%BASE_HREF%% by /; in a production run styles are
\* minified, webpack's mode is production and the base path is
\* /AndroidAssetStudio/.
C13_ModeAgreement ==
  /\ DevRun =>
       /\ stylesMode \in {"unset", "plain"}
       /\ webpackMode \in {"unset", "development"}
       /\ htmlBaseHref \in {"unset", "/"}
  /\ ~DevRun =>
       /\ stylesMode \in {"unset", "minified"}
       /\ webpackMode \in {"unset", "production"}
       /\ htmlBaseHref \in {"unset", "/AndroidAssetStudio/"}

\* The part of C13 about styles and webpack.
C13_StylesAndWebpack ==
  /\ DevRun =>
       /\ stylesMode \in {"unset", "plain"}
       /\ webpackMode \in {"unset", "development"}
  /\ ~DevRun =>
       /\ stylesMode \in {"unset", "minified"}
       /\ webpackMode \in {"unset", "production"}

ServeSteps == {"styles", "html", "webpack"}

\* C14: in a serve run the development-mode flag is set before any of
\* styles, html and webpack starts; the dev server, the file watchers and
\* the webpack watcher are started only when all three have completed; and
\* the flag, once set, is never reset.
C14_ServeOrder ==
  /\ [](DevRun => \A t \in ServeSteps : state[t] # "pending" => DEV_MODE)
  /\ [][DevRun /\ \/ serving = "none" /\ serving' # "none"
                  \/ ~watching /\ watching'
                  \/ ~webpackWatching /\ webpackWatching'
          => DEV_MODE /\ \A t \in ServeSteps : Completed(t)]_vars
  /\ [][DEV_MODE => DEV_MODE']_vars

C14_Witness ==
  /\ DevRun
  /\ DEV_MODE
  /\ serving = "dev"
  /\ watching
  /\ webpackWatching
  /\ changes = 0
  /\ \A t \in ServeSteps : state[t] = "succeeded"

BuildSteps == ContentSteps \cup {"clean", "styles", "service-worker"}

\* In a serve:dist run the function of serve:dist, which starts the server
\* for dist, is called only when the seven steps of the build and the
\* default step have completed.
C16_ServerAfterBuild ==
  cmd = "serve:dist" /\ (serving # "none" \/ state["serve:dist"] # "pending") =>
    \A t \in BuildSteps \cup {"default"} : Completed(t)

C15_FailedRunKeepsWatching ==
  \A t \in lastChange.ran :
    actionError[t] # "none" =>
      /\ watching
      /\ ~(crashed /\ actionError[t] = "fatal")

\* The part of C15 about the failures the task runner or errorHandler sees.
C15_HandledFailureKeepsWatching ==
  \A t \in lastChange.ran :
    actionError[t] \in {"swallowed", "reported"} /\ ~crashed => watching

\* No completion is signalled twice: the callback given to runSequence by
\* the default task is called at most once, and once when the task is done;
\* the webpack task's cb is called once per invocation that completes.
C18_SignalsOnce ==
  /\ signals["default"] <= 1
  /\ Completed("default") => signals["default"] = 1
  /\ signals["webpack"] <= 1
  /\ Completed("webpack") => signals["webpack"] = 1

\* The external action of some running step has not signalled yet: the
\* step's stream has not ended or failed, its callback was not called, its
\* promise is not settled.
Outstanding ==
  \E t \in BuildSteps : state[t] = "running" /\ actionError[t] # "fatal"

\* C18: a run of the default target terminates with one result when every
\* external action signals its completion: while the run is not over, the
\* action of some running step has still to signal; the run's completion
\* callback is called once and not twice; and the webpack step signals
\* completion once per invocation, whether or not the compilation reported
\* an error. (Stated for the runs in which no stream of another step has
\* thrown an error of its own.)
C18_RunTerminatesOnce ==
  cmd = "default" /\ (\A t \in BuildSteps \ {"webpack"} : actionError[t] # "fatal") =>
    /\ started /\ ~RunOver => Outstanding
    /\ C18_SignalsOnce

\* C11: the target run twice in a row on unchanged inputs has the same
\* result both times, also when the first run failed and left a part of
\* its output: the steps of the second run build on a tree from which the
\* output of the first run has been removed, and the second run succeeds
\* exactly when the first did.
C11_RerunSameResult ==
  run > 1 =>
    /\ Quiet => (Succeeded <=> firstResult.succeeded)
    /\ (\E t \in LeafSteps \ {"clean"} : state[t] # "pending") =>
         \A t \in LeafSteps : dist[t] \in {0, run}

C11_Witness ==
  /\ run > 1
  /\ Quiet
  /\ ~firstResult.succeeded
  /\ firstResult.left # {}
  /\ failed
  /\ state["styles"] = "succeeded"
  /\ Completed("html")

(***************************************************************************)
(* Properties of the resolver.                                             *)
(***************************************************************************)
RECURSIVE ReachFrom(_, _)
\* The steps reachable from the set S along dependencies, S included.
ReachFrom(g, S) ==
  LET N == S \cup UNION {g[s] : s \in S}
  IN  IF N = S THEN S ELSE ReachFrom(g, N)

\* Step s transitively depends on itself.
OnCycle(g, s) == s \in ReachFrom(g, g[s])

HasReachableCycle == \E s \in ReachFrom(graph, targets) : OnCycle(graph, s)

Resolved == runnerPc \in {"resolved", "started", "aborted"}

C10_CycleAbortsBeforeAnyStep ==
  Resolved /\ HasReachableCycle =>
    /\ buildGraph.error = "CyclicDependencyError"
    /\ DOMAIN buildGraph.stage = {}
    /\ runnerPc # "started"
    /\ \A s \in DOMAIN graph : stepState[s] = "pending"

C10_Witness ==
  /\ runnerPc = "aborted"
  /\ HasReachableCycle
  /\ \E s \in ReachFrom(graph, targets) : ~OnCycle(graph, s) /\ graph[s] = {}

====
